---- MODULE Spec2Model ----
(***************************************************************************)
(* Model of the dropout crate (src/src/lib.rs): one Dropper lineage, i.e.  *)
(* one Arc<inner::Dropper<T>>, its unbounded crossbeam channel and its     *)
(* "Dropout" worker thread, used by a few producer threads.                *)
(*                                                                         *)
(* A value of T is one of three kinds:                                     *)
(*   "plain"   its destructor returns;                                     *)
(*   "faulty"  its destructor panics;                                      *)
(*   "handle"  it owns a clone of the Dropper (T may contain a Dropper<T>, *)
(*             e.g. a boxed closure that captured one), so destroying it   *)
(*             releases one owner of the Arc.                              *)
(*                                                                         *)
(* Library behaviour the code relies on:                                   *)
(*  - Arc: the strong count is decremented atomically and the thread that  *)
(*    takes it to 0 runs inner::Dropper::drop;                             *)
(*  - crossbeam unbounded channel: send is atomic, fails iff the receiver  *)
(*    has been dropped and then gives the value back in the error; the     *)
(*    drop of the receiver first marks the channel disconnected and then   *)
(*    destroys the messages still queued, on the dropping thread;          *)
(*  - a panic unwinds the thread and drops its locals; a panic raised      *)
(*    while unwinding aborts the process;                                  *)
(*  - JoinHandle::join of the calling thread itself either panics          *)
(*    (pthread_join reports EDEADLK) or blocks forever, by platform.       *)
(***************************************************************************)
EXTENDS Integers, Sequences, FiniteSets, TLC

\* ---- bounds of the model ----
NumProducers == 2
MaxValues == 3
MaxRef == 2
MaxFaulty == 2

Producers == 1..NumProducers

\* thread identities: producers are 1..NumProducers
WorkerThread == 0
Nobody == -1

Kinds == {"plain", "faulty", "handle"}

VARIABLES
    refcount,        \* strong count of the Arc in Dropper(Arc<inner::Dropper>)
    handles,         \* handles[p]: Dropper values owned directly by thread p
    drop_sender,     \* inner::Dropper.drop_sender: "Some" or "None"
    thread_handle,   \* inner::Dropper.thread_handle: "Some" or "None"
    receiverAlive,   \* drop_receiver, owned by the worker closure, not yet dropped
    queue,           \* messages in the channel, oldest first (value ids)
    worker,          \* position of the worker thread
    cur,             \* value the worker received and is destroying (0: none)
    panicking,       \* the worker thread is unwinding from a panic
    pc,              \* pc[p]: position of producer thread p
    held,            \* held[p]: value given back to p by a failed send (0: none)
    vals,            \* vals[v]: every value ever passed to dropout
    destroyLog,      \* value ids in the order their destructors ran
    teardownBy,      \* thread that runs inner::Dropper::drop
    releaseReturned, \* the release of the last owner has returned to its caller
    aborted,         \* the process aborted (panic while unwinding)
    workersStarted,  \* threads spawned for this lineage
    channelsCreated, \* channels created for this lineage
    dropoutFault,    \* dropoutFault[p]: a dropout call of p unwound with a panic
    unwrapPanic      \* dropout found drop_sender empty (unwrap on None)

vars == <<refcount, handles, drop_sender, thread_handle, receiverAlive, queue,
          worker, cur, panicking, pc, held, vals, destroyLog, teardownBy,
          releaseReturned, aborted, workersStarted, channelsCreated,
          dropoutFault, unwrapPanic>>

\* the variables of the worker thread and of the channel's receiving side
workerVars == <<receiverAlive, worker, cur, panicking>>

Ids == 1..Len(vals)

NumFaulty == Cardinality({v \in Ids : vals[v].kind = "faulty"})

\* the worker thread has finished (its closure returned or it unwound)
WorkerTerminated == worker \in {"done", "panicked"}

\* running the destructor of value v on thread who
Destroyed(vs, v, who) ==
    [vs EXCEPT ![v].place = "destroyed", ![v].by = who, ![v].n = @ + 1]

\* State after Dropper::new(): Arc::new(inner::Dropper::new())
Init ==
    /\ refcount = 1
    /\ handles = [p \in Producers |-> IF p = 1 THEN 1 ELSE 0]
    /\ drop_sender = "Some"
    /\ thread_handle = "Some"
    /\ receiverAlive = TRUE
    /\ queue = <<>>
    /\ worker = "recv"
    /\ cur = 0
    /\ panicking = FALSE
    /\ pc = [p \in Producers |-> "idle"]
    /\ held = [p \in Producers |-> 0]
    /\ vals = <<>>
    /\ destroyLog = <<>>
    /\ teardownBy = Nobody
    /\ releaseReturned = FALSE
    /\ aborted = FALSE
    /\ workersStarted = 1
    /\ channelsCreated = 1
    /\ dropoutFault = [p \in Producers |-> FALSE]
    /\ unwrapPanic = FALSE

\* ---- producer threads ----

\* a channel of capacity 1
SendReady_Bounded == Len(queue) < 1

\* unbounded(): a send never waits for room in the queue
SendReady == TRUE

\* every release tears the inner state down
IsLastOwner_Always == TRUE

\* Arc: the release that finds the strong count at 1 is the last owner's
IsLastOwner == refcount = 1

\* the value of a failed send is forgotten instead of dropped
DropoutErr_Forget(p, v) == UNCHANGED <<pc, held>>

\* `let _ = ...send(to_drop)`: the value inside the error of a failed send
\* is still owned by the calling thread, which drops it before returning
DropoutErr(p, v) ==
    /\ pc' = [pc EXCEPT ![p] = "fallback"]
    /\ held' = [held EXCEPT ![p] = v]

\* a clone that builds its own channel and worker, as new() does
Clone_Spawns(p, q) ==
    /\ ~aborted
    /\ pc[p] = "idle"
    /\ handles[p] >= 1
    /\ refcount < MaxRef
    /\ refcount' = refcount + 1
    /\ handles' = [handles EXCEPT ![q] = @ + 1]
    /\ UNCHANGED <<drop_sender, thread_handle, receiverAlive, queue, worker,
                   cur, panicking, pc, held, vals, destroyLog, teardownBy,
                   releaseReturned, aborted, dropoutFault, unwrapPanic>>
    /\ workersStarted' = workersStarted + 1
    /\ channelsCreated' = channelsCreated + 1

\* a clone that shares the inner state without counting the new owner
Clone_NoIncref(p, q) ==
    /\ ~aborted
    /\ pc[p] = "idle"
    /\ handles[p] >= 1
    /\ refcount < MaxRef
    /\ refcount' = refcount
    /\ handles' = [handles EXCEPT ![q] = @ + 1]
    /\ UNCHANGED <<drop_sender, thread_handle, receiverAlive, queue, worker,
                   cur, panicking, pc, held, vals, destroyLog, teardownBy,
                   releaseReturned, aborted, workersStarted, channelsCreated,
                   dropoutFault, unwrapPanic>>

\* Dropper::clone by thread p; the clone is kept or moved to thread q
Clone(p, q) ==
    /\ ~aborted
    /\ pc[p] = "idle"
    /\ handles[p] >= 1
    /\ refcount < MaxRef
    /\ refcount' = refcount + 1
    /\ handles' = [handles EXCEPT ![q] = @ + 1]
    /\ UNCHANGED <<drop_sender, thread_handle, receiverAlive, queue, worker,
                   cur, panicking, pc, held, vals, destroyLog, teardownBy,
                   releaseReturned, aborted, workersStarted, channelsCreated,
                   dropoutFault, unwrapPanic>>

\* Dropper::dropout(&self, to_drop) by thread p, up to the return of send.
\* A value of kind "handle" takes one of p's other Dropper clones with it.
Dropout(p, kind) ==
    /\ ~aborted
    /\ pc[p] = "idle"
    /\ handles[p] >= (IF kind = "handle" THEN 2 ELSE 1)
    /\ Len(vals) < MaxValues
    /\ kind = "faulty" => NumFaulty < MaxFaulty
    /\ SendReady
    /\ IF drop_sender = "None"
       THEN \* self.drop_sender.as_ref().unwrap() panics
            /\ unwrapPanic' = TRUE
            /\ UNCHANGED <<handles, queue, pc, held, vals>>
       ELSE LET v == Len(vals) + 1
                rec == [prod |-> p, kind |-> kind, n |-> 0, by |-> Nobody,
                        gone |-> ~receiverAlive,
                        place |-> IF receiverAlive THEN "queue" ELSE "caller"]
            IN /\ vals' = Append(vals, rec)
               /\ handles' = [handles EXCEPT
                                ![p] = IF kind = "handle" THEN @ - 1 ELSE @]
               /\ IF receiverAlive
                  THEN \* send succeeded: the call returns
                       /\ queue' = Append(queue, v)
                       /\ UNCHANGED <<pc, held>>
                  ELSE \* Err(SendError(to_drop)): dropped by `let _ =`
                       /\ DropoutErr(p, v)
                       /\ UNCHANGED queue
               /\ UNCHANGED unwrapPanic
    /\ UNCHANGED <<refcount, drop_sender, thread_handle, receiverAlive, worker,
                   cur, panicking, destroyLog, teardownBy, releaseReturned,
                   aborted, workersStarted, channelsCreated, dropoutFault>>

\* the failed send's error is dropped: the value is destroyed by the caller
DropoutFallback(p) ==
    /\ ~aborted
    /\ pc[p] = "fallback"
    /\ LET v == held[p] IN
         /\ vals' = Destroyed(vals, v, p)
         /\ destroyLog' = Append(destroyLog, v)
         /\ refcount' = IF vals[v].kind = "handle" THEN refcount - 1 ELSE refcount
         /\ dropoutFault' = [dropoutFault EXCEPT
                               ![p] = @ \/ vals[v].kind = "faulty"]
    /\ pc' = [pc EXCEPT ![p] = "idle"]
    /\ held' = [held EXCEPT ![p] = 0]
    /\ UNCHANGED <<handles, drop_sender, thread_handle, receiverAlive, queue,
                   worker, cur, panicking, teardownBy, releaseReturned,
                   aborted, workersStarted, channelsCreated, unwrapPanic>>

\* the teardown implemented as Drop of the outer Dropper: every clone runs it
Release_EveryDrop(p) ==
    /\ ~aborted
    /\ pc[p] = "idle"
    /\ handles[p] >= 1
    /\ handles' = [handles EXCEPT ![p] = @ - 1]
    /\ refcount' = refcount - 1
    /\ IF TRUE
       THEN /\ pc' = [pc EXCEPT ![p] = "close"]
            /\ teardownBy' = p
       ELSE UNCHANGED <<pc, teardownBy>>
    /\ UNCHANGED <<drop_sender, thread_handle, receiverAlive, queue, worker,
                   cur, panicking, held, vals, destroyLog, releaseReturned,
                   aborted, workersStarted, channelsCreated, dropoutFault,
                   unwrapPanic>>

\* thread p drops one Dropper: Arc decrement; the last owner starts
\* inner::Dropper::drop
Release(p) ==
    /\ ~aborted
    /\ pc[p] = "idle"
    /\ handles[p] >= 1
    /\ handles' = [handles EXCEPT ![p] = @ - 1]
    /\ refcount' = refcount - 1
    /\ IF IsLastOwner
       THEN /\ pc' = [pc EXCEPT ![p] = "close"]
            /\ teardownBy' = p
       ELSE UNCHANGED <<pc, teardownBy>>
    /\ UNCHANGED <<drop_sender, thread_handle, receiverAlive, queue, worker,
                   cur, panicking, held, vals, destroyLog, releaseReturned,
                   aborted, workersStarted, channelsCreated, dropoutFault,
                   unwrapPanic>>

\* a teardown that also destroys the oldest queued value on the releasing thread
TeardownClose_Drains(p) ==
    /\ ~aborted
    /\ pc[p] = "close"
    /\ drop_sender' = "None"
    /\ pc' = [pc EXCEPT ![p] = "join"]
    /\ IF queue = <<>> \/ vals[Head(queue)].kind # "plain"
       THEN UNCHANGED <<queue, vals, destroyLog>>
       ELSE /\ queue' = Tail(queue)
            /\ vals' = Destroyed(vals, Head(queue), p)
            /\ destroyLog' = Append(destroyLog, Head(queue))
    /\ UNCHANGED <<refcount, handles, thread_handle, receiverAlive,
                   worker, cur, panicking, held, teardownBy,
                   releaseReturned, aborted, workersStarted, channelsCreated,
                   dropoutFault, unwrapPanic>>

\* inner::Dropper::drop, first statement: drop(self.drop_sender.take())
TeardownClose(p) ==
    /\ ~aborted
    /\ pc[p] = "close"
    /\ drop_sender' = "None"
    /\ pc' = [pc EXCEPT ![p] = "join"]
    /\ UNCHANGED <<refcount, handles, thread_handle, receiverAlive, queue,
                   worker, cur, panicking, held, vals, destroyLog, teardownBy,
                   releaseReturned, aborted, workersStarted, channelsCreated,
                   dropoutFault, unwrapPanic>>

\* the join handle is dropped without joining
TeardownJoin_NoWait(p) ==
    /\ ~aborted
    /\ pc[p] = "join"
    /\ thread_handle' = "None"
    /\ pc' = [pc EXCEPT ![p] = "idle"]
    /\ releaseReturned' = TRUE
    /\ UNCHANGED <<refcount, handles, drop_sender, receiverAlive, queue,
                   worker, cur, panicking, held, vals, destroyLog, teardownBy,
                   aborted, workersStarted, channelsCreated, dropoutFault,
                   unwrapPanic>>

\* h.join().unwrap(): the panic of the worker is raised again in the releasing thread
TeardownJoin_Unwrap(p) ==
    /\ ~aborted
    /\ pc[p] = "join"
    /\ WorkerTerminated
    /\ thread_handle' = "None"
    /\ pc' = [pc EXCEPT ![p] = "idle"]
    /\ releaseReturned' = (worker = "done")
    /\ UNCHANGED <<refcount, handles, drop_sender, receiverAlive, queue,
                   worker, cur, panicking, held, vals, destroyLog, teardownBy,
                   aborted, workersStarted, channelsCreated, dropoutFault,
                   unwrapPanic>>

\* inner::Dropper::drop, second statement: thread_handle.take().map(|h| h.join())
\* blocks until the worker thread has finished; the join result is discarded
TeardownJoin(p) ==
    /\ ~aborted
    /\ pc[p] = "join"
    /\ WorkerTerminated
    /\ thread_handle' = "None"
    /\ pc' = [pc EXCEPT ![p] = "idle"]
    /\ releaseReturned' = TRUE
    /\ UNCHANGED <<refcount, handles, drop_sender, receiverAlive, queue,
                   worker, cur, panicking, held, vals, destroyLog, teardownBy,
                   aborted, workersStarted, channelsCreated, dropoutFault,
                   unwrapPanic>>

\* ---- the worker thread: while let Ok(_) = drop_receiver.recv() {} ----

\* a receive that reports the channel closed as soon as the sender is dropped
WorkerRecv_NoDrain ==
    /\ ~aborted
    /\ worker = "recv"
    /\ IF queue # <<>> /\ drop_sender = "Some"
       THEN /\ cur' = Head(queue)
            /\ queue' = Tail(queue)
            /\ vals' = [vals EXCEPT ![Head(queue)].place = "worker"]
            /\ worker' = "destroying"
            /\ UNCHANGED receiverAlive
       ELSE /\ drop_sender = "None"
            /\ worker' = "done"
            /\ receiverAlive' = FALSE
            /\ UNCHANGED <<cur, queue, vals>>
    /\ UNCHANGED <<refcount, handles, drop_sender, thread_handle, panicking,
                   pc, held, destroyLog, teardownBy, releaseReturned, aborted,
                   workersStarted, channelsCreated, dropoutFault, unwrapPanic>>

\* a loop on try_recv: the thread ends as soon as it finds the queue empty
WorkerRecv_TryRecv ==
    /\ ~aborted
    /\ worker = "recv"
    /\ IF queue # <<>>
       THEN /\ cur' = Head(queue)
            /\ queue' = Tail(queue)
            /\ vals' = [vals EXCEPT ![Head(queue)].place = "worker"]
            /\ worker' = "destroying"
            /\ UNCHANGED receiverAlive
       ELSE /\ worker' = "done"
            /\ receiverAlive' = FALSE
            /\ UNCHANGED <<cur, queue, vals>>
    /\ UNCHANGED <<refcount, handles, drop_sender, thread_handle, panicking,
                   pc, held, destroyLog, teardownBy, releaseReturned, aborted,
                   workersStarted, channelsCreated, dropoutFault, unwrapPanic>>

\* a receive that hands out the oldest message and leaves it in the queue
WorkerRecv_Peek ==
    /\ ~aborted
    /\ worker = "recv"
    /\ IF queue # <<>>
       THEN /\ cur' = Head(queue)
            /\ queue' = queue
            /\ vals' = [vals EXCEPT ![Head(queue)].place = "worker"]
            /\ worker' = "destroying"
            /\ UNCHANGED receiverAlive
       ELSE /\ drop_sender = "None"
            /\ worker' = "done"
            /\ receiverAlive' = FALSE
            /\ UNCHANGED <<cur, queue, vals>>
    /\ UNCHANGED <<refcount, handles, drop_sender, thread_handle, panicking,
                   pc, held, destroyLog, teardownBy, releaseReturned, aborted,
                   workersStarted, channelsCreated, dropoutFault, unwrapPanic>>

\* drop_receiver.recv(): the oldest message, or Err once the sender is
\* dropped and the queue is empty, which ends the loop and the thread
WorkerRecv ==
    /\ ~aborted
    /\ worker = "recv"
    /\ IF queue # <<>>
       THEN /\ cur' = Head(queue)
            /\ queue' = Tail(queue)
            /\ vals' = [vals EXCEPT ![Head(queue)].place = "worker"]
            /\ worker' = "destroying"
            /\ UNCHANGED receiverAlive
       ELSE /\ drop_sender = "None"
            /\ worker' = "done"
            /\ receiverAlive' = FALSE
            /\ UNCHANGED <<cur, queue, vals>>
    /\ UNCHANGED <<refcount, handles, drop_sender, thread_handle, panicking,
                   pc, held, destroyLog, teardownBy, releaseReturned, aborted,
                   workersStarted, channelsCreated, dropoutFault, unwrapPanic>>

\* a loop that catches the panic of a destructor and goes on receiving
WorkerDestroy_Resume ==
    /\ ~aborted
    /\ worker = "destroying"
    /\ vals' = Destroyed(vals, cur, WorkerThread)
    /\ destroyLog' = Append(destroyLog, cur)
    /\ cur' = 0
    /\ CASE vals[cur].kind = "plain" ->
              /\ worker' = "recv"
              /\ UNCHANGED <<refcount, panicking, teardownBy>>
         [] vals[cur].kind = "faulty" ->
              /\ worker' = "recv"
              /\ UNCHANGED <<refcount, panicking, teardownBy>>
         [] vals[cur].kind = "handle" ->
              /\ refcount' = refcount - 1
              /\ worker' = IF IsLastOwner THEN "close" ELSE "recv"
              /\ teardownBy' = IF IsLastOwner THEN WorkerThread ELSE teardownBy
              /\ UNCHANGED panicking
    /\ UNCHANGED <<handles, drop_sender, thread_handle, receiverAlive, queue,
                   pc, held, releaseReturned, aborted, workersStarted,
                   channelsCreated, dropoutFault, unwrapPanic>>

\* the received value goes out of scope at the end of the loop body
WorkerDestroy ==
    /\ ~aborted
    /\ worker = "destroying"
    /\ vals' = Destroyed(vals, cur, WorkerThread)
    /\ destroyLog' = Append(destroyLog, cur)
    /\ cur' = 0
    /\ CASE vals[cur].kind = "plain" ->
              /\ worker' = "recv"
              /\ UNCHANGED <<refcount, panicking, teardownBy>>
         [] vals[cur].kind = "faulty" ->
              /\ worker' = "disconnect"
              /\ panicking' = TRUE
              /\ UNCHANGED <<refcount, teardownBy>>
         [] vals[cur].kind = "handle" ->
              /\ refcount' = refcount - 1
              /\ worker' = IF IsLastOwner THEN "close" ELSE "recv"
              /\ teardownBy' = IF IsLastOwner THEN WorkerThread ELSE teardownBy
              /\ UNCHANGED panicking
    /\ UNCHANGED <<handles, drop_sender, thread_handle, receiverAlive, queue,
                   pc, held, releaseReturned, aborted, workersStarted,
                   channelsCreated, dropoutFault, unwrapPanic>>

\* inner::Dropper::drop running on the worker thread, first statement
WorkerTeardownClose ==
    /\ ~aborted
    /\ worker = "close"
    /\ drop_sender' = "None"
    /\ worker' = "join"
    /\ UNCHANGED <<refcount, handles, thread_handle, receiverAlive, queue,
                   cur, panicking, pc, held, vals, destroyLog, teardownBy,
                   releaseReturned, aborted, workersStarted, channelsCreated,
                   dropoutFault, unwrapPanic>>

\* inner::Dropper::drop running on the worker thread, second statement: the
\* worker joins itself. join panics (abort if already unwinding) or never
\* returns.
WorkerSelfJoin ==
    /\ ~aborted
    /\ worker = "join"
    /\ thread_handle' = "None"
    /\ \/ /\ ~panicking
          /\ panicking' = TRUE
          /\ worker' = "disconnect"
          /\ UNCHANGED aborted
       \/ /\ panicking
          /\ aborted' = TRUE
          /\ UNCHANGED <<worker, panicking>>
       \/ /\ worker' = "selfjoin"
          /\ UNCHANGED <<aborted, panicking>>
    /\ UNCHANGED <<refcount, handles, drop_sender, receiverAlive, queue, cur,
                   pc, held, vals, destroyLog, teardownBy, releaseReturned,
                   workersStarted, channelsCreated, dropoutFault, unwrapPanic>>

\* a supervisor that catches the panic and runs the receive loop again
WorkerDisconnect_Restart ==
    /\ ~aborted
    /\ worker = "disconnect"
    /\ panicking' = FALSE
    /\ worker' = "recv"
    /\ UNCHANGED <<refcount, handles, drop_sender, thread_handle, queue, cur,
                   receiverAlive, pc, held, vals, destroyLog, teardownBy,
                   releaseReturned, aborted, workersStarted, channelsCreated,
                   dropoutFault, unwrapPanic>>

\* unwinding drops the closure's drop_receiver: the channel is marked
\* disconnected, from now on every send fails
WorkerDisconnect ==
    /\ ~aborted
    /\ worker = "disconnect"
    /\ receiverAlive' = FALSE
    /\ worker' = "discard"
    /\ UNCHANGED <<refcount, handles, drop_sender, thread_handle, queue, cur,
                   panicking, pc, held, vals, destroyLog, teardownBy,
                   releaseReturned, aborted, workersStarted, channelsCreated,
                   dropoutFault, unwrapPanic>>

\* the drop of the receiver destroys the messages still queued, oldest
\* first, on the (unwinding) worker thread; then the thread is finished
WorkerDiscard ==
    /\ ~aborted
    /\ worker = "discard"
    /\ IF queue = <<>>
       THEN /\ worker' = "panicked"
            /\ UNCHANGED <<refcount, queue, vals, destroyLog, teardownBy,
                           aborted>>
       ELSE LET v == Head(queue) IN
            /\ queue' = Tail(queue)
            /\ vals' = Destroyed(vals, v, WorkerThread)
            /\ destroyLog' = Append(destroyLog, v)
            /\ CASE vals[v].kind = "plain" ->
                      UNCHANGED <<refcount, worker, teardownBy, aborted>>
                 [] vals[v].kind = "faulty" ->
                      /\ aborted' = TRUE
                      /\ UNCHANGED <<refcount, worker, teardownBy>>
                 [] vals[v].kind = "handle" ->
                      /\ refcount' = refcount - 1
                      /\ worker' = IF IsLastOwner THEN "close" ELSE worker
                      /\ teardownBy' = IF IsLastOwner THEN WorkerThread
                                       ELSE teardownBy
                      /\ UNCHANGED aborted
    /\ UNCHANGED <<handles, drop_sender, thread_handle, receiverAlive, cur,
                   panicking, pc, held, releaseReturned, workersStarted,
                   channelsCreated, dropoutFault, unwrapPanic>>

Next ==
    \/ \E p \in Producers, q \in Producers : Clone(p, q)
    \/ \E p \in Producers, kind \in Kinds : Dropout(p, kind)
    \/ \E p \in Producers : DropoutFallback(p)
    \/ \E p \in Producers : Release(p)
    \/ \E p \in Producers : TeardownClose(p)
    \/ \E p \in Producers : TeardownJoin(p)
    \/ WorkerRecv
    \/ WorkerDestroy
    \/ WorkerTeardownClose
    \/ WorkerSelfJoin
    \/ WorkerDisconnect
    \/ WorkerDiscard

Spec == Init /\ [][Next]_vars

\* The worker and the teardown are scheduled fairly and a thread that is in
\* the middle of a call finishes it.
FairSpec ==
    /\ Spec
    /\ WF_vars(WorkerRecv)
    /\ WF_vars(WorkerDestroy)
    /\ WF_vars(WorkerTeardownClose)
    /\ WF_vars(WorkerSelfJoin)
    /\ WF_vars(WorkerDisconnect)
    /\ WF_vars(WorkerDiscard)
    /\ \A p \in Producers : WF_vars(DropoutFallback(p))
    /\ \A p \in Producers : WF_vars(TeardownClose(p))
    /\ \A p \in Producers : WF_vars(TeardownJoin(p))

\* ---- properties ----

\* a destruction of v faulted on the worker thread
FaultedInWorker(v) == vals[v].kind = "faulty" /\ vals[v].by = WorkerThread

\* C1 (eventual destruction): no value is ever destroyed twice, a value is
\* out of every queue and hand exactly when its destructor has run once, and
\* once the release of the last owner has returned every value ever passed to
\* dropout has been destroyed exactly once and the queue is empty.
C1_EventualDestruction ==
    /\ \A v \in Ids : /\ vals[v].n <= 1
                      /\ (vals[v].n = 1) <=> (vals[v].place = "destroyed")
    /\ releaseReturned =>
         /\ queue = <<>>
         /\ \A v \in Ids : vals[v].n = 1 /\ vals[v].by # Nobody

C1_Witness ==
    /\ releaseReturned
    /\ \E v \in Ids : vals[v].by = WorkerThread
    /\ \E v \in Ids : vals[v].by \in Producers

\* C2 (blocking teardown): the step in which the release of the last owner
\* returns is taken only from a state where the worker has finished and no
\* value is queued, held by the worker or held by a caller.
C2_BlockingTeardown ==
    [][(~releaseReturned /\ releaseReturned') =>
          /\ WorkerTerminated
          /\ cur = 0
          /\ \A v \in Ids : vals[v].place \notin {"queue", "worker", "caller"}]_vars

C2_Witness ==
    /\ releaseReturned
    /\ Len(vals) = MaxValues
    /\ \A v \in Ids : vals[v].by = WorkerThread /\ vals[v].kind = "plain"

\* C3 (fallback safety): a value passed to dropout while the receiver was
\* already gone is never in the queue and never with the worker; until it is
\* destroyed it is held by its caller, who is still inside dropout, and it is
\* destroyed once, by that caller.
C3_FallbackSafety ==
    \A v \in Ids : vals[v].gone =>
        /\ vals[v].place \in {"caller", "destroyed"}
        /\ \A i \in 1..Len(queue) : queue[i] # v
        /\ vals[v].place = "caller" =>
              pc[vals[v].prod] = "fallback" /\ held[vals[v].prod] = v
        /\ vals[v].place = "destroyed" =>
              vals[v].by = vals[v].prod /\ vals[v].n = 1

C3_Witness ==
    \E v \in Ids : /\ vals[v].gone
                   /\ vals[v].place = "destroyed"
                   /\ vals[v].by = vals[v].prod
                   /\ pc[vals[v].prod] = "idle"

\* C4 (per-producer FIFO): two values passed to dropout by the same thread
\* are destroyed in the order they were passed (ids grow in call order).
C4_PerProducerFIFO ==
    \A i \in 1..Len(destroyLog) : \A j \in 1..Len(destroyLog) :
        (i < j /\ vals[destroyLog[i]].prod = vals[destroyLog[j]].prod)
            => destroyLog[i] < destroyLog[j]

\* C5 (dropout does not wait for the worker): a thread that owns a Dropper
\* and is not inside a call can always call dropout, whatever the length of
\* the queue and the position of the worker; and the step that enqueues a
\* value is the whole call: the caller is back outside the call and the
\* worker has not moved.
C5_DropoutDoesNotWait ==
    /\ [](\A p \in Producers :
            (~aborted /\ pc[p] = "idle" /\ handles[p] >= 1
               /\ Len(vals) < MaxValues)
                 => ENABLED Dropout(p, "plain"))
    /\ [][Len(queue') > Len(queue) =>
            /\ pc' = pc
            /\ \A p \in Producers : pc'[p] = "idle"
                                     \/ vals'[Len(vals')].prod # p
            /\ UNCHANGED <<workerVars, destroyLog>>]_vars

C5_Witness ==
    /\ Len(queue) >= 2
    /\ worker = "destroying"
    /\ \A i \in 1..Len(queue) : /\ vals[queue[i]].n = 0
                                /\ pc[vals[queue[i]].prod] = "idle"

\* C6 (cheap sharing): one channel and one worker per lineage, however many
\* clones exist.
C6_OneWorker ==
    workersStarted = 1 /\ channelsCreated = 1

C6_Witness ==
    /\ refcount >= 2
    /\ \A p \in Producers : handles[p] >= 1
    /\ \E v \in Ids : vals[v].prod = 2 /\ vals[v].place = "queue"

\* C7 (teardown only on the last owner): the sender is closed and the join
\* handle taken only after the count reached 0; a step that releases an owner
\* and leaves another alive keeps both fields and starts no teardown, and if
\* it is a thread dropping its Dropper it also leaves the queue, the worker
\* and the thread's position unchanged; the step that takes the count from 1
\* to 0 starts the teardown on the releasing thread.
C7_TeardownOnlyOnLast ==
    /\ [](/\ drop_sender = "None" => refcount = 0 /\ teardownBy # Nobody
          /\ thread_handle = "None" => drop_sender = "None"
          /\ teardownBy # Nobody => refcount = 0
          /\ \A p \in Producers : pc[p] \in {"close", "join"} => teardownBy = p
          /\ worker \in {"close", "join", "selfjoin"} => teardownBy = WorkerThread)
    /\ [][/\ (refcount' < refcount /\ refcount' > 0) =>
                /\ UNCHANGED <<drop_sender, thread_handle, teardownBy>>
                /\ handles' # handles =>
                      UNCHANGED <<queue, workerVars, pc, vals>>
          /\ (refcount' < refcount /\ refcount' = 0) =>
                /\ teardownBy = Nobody /\ teardownBy' # Nobody
                /\ \/ \E p \in Producers : teardownBy' = p /\ pc'[p] = "close"
                   \/ teardownBy' = WorkerThread /\ worker' = "close"]_vars

C7_Witness ==
    /\ refcount = 1
    /\ drop_sender = "Some"
    /\ handles[1] = 0
    /\ handles[2] = 1
    /\ queue # <<>>

\* C8 as stated: once a destruction has faulted in the worker no later value
\* is placed in the queue.
C8_NoEnqueueAfterFault ==
    [][(\E v \in Ids : FaultedInWorker(v)) => Len(queue') <= Len(queue)]_vars

\* C8 (permanent fallback after a worker fault), amended: after a
\* destruction faulted in the worker, the worker never receives again, the
\* faulted value is not destroyed again and no worker is started; and once
\* the worker has dropped its receiving endpoint the endpoint stays gone and
\* every later dropout hands its value back to the caller instead of
\* enqueueing it.
C8_PermanentFallback ==
    /\ []((\E v \in Ids : FaultedInWorker(v)) =>
            /\ worker \notin {"recv", "destroying", "done"}
            /\ workersStarted = 1
            /\ \A v \in Ids : FaultedInWorker(v) => vals[v].n = 1)
    /\ [][~receiverAlive =>
            /\ ~receiverAlive'
            /\ Len(queue') <= Len(queue)
            /\ Len(vals') > Len(vals) =>
                  vals'[Len(vals')].place = "caller"]_vars

C8_Witness ==
    /\ \E v \in Ids : FaultedInWorker(v)
    /\ worker = "panicked"
    /\ \E v \in Ids : vals[v].gone /\ vals[v].by = vals[v].prod
    /\ \A p \in Producers : handles[p] >= 1

\* C9 as stated: no dropout call ever ends with a fault.
C9_DropoutNeverFaults ==
    /\ ~unwrapPanic
    /\ \A p \in Producers : ~dropoutFault[p]

\* C9 (dropout never fails for the caller), amended: the sender is present
\* whenever a thread owns a Dropper, so the unwrap in dropout never panics,
\* and a dropout call unwinds only when the destructor of its own value
\* panicked while the caller ran it on the fallback path.
C9_DropoutFailsOnlyByOwnValue ==
    /\ ~unwrapPanic
    /\ \A p \in Producers :
          /\ (handles[p] >= 1 \/ pc[p] = "fallback") => drop_sender = "Some"
          /\ dropoutFault[p] =>
                \E v \in Ids : /\ vals[v].prod = p
                               /\ vals[v].kind = "faulty"
                               /\ vals[v].gone
                               /\ vals[v].by = p

C9_Witness ==
    /\ worker = "panicked"
    /\ \E p \in Producers : dropoutFault[p] /\ handles[p] >= 1 /\ pc[p] = "idle"
    /\ \E v \in Ids : vals[v].kind = "plain" /\ vals[v].gone
                        /\ vals[v].place = "destroyed"

\* C10 (teardown terminates): when every destructor returns (no value is
\* faulty) and the threads are scheduled fairly, once the last owner is
\* released, by a producer or by the worker destroying a value that holds
\* it, the release eventually returns with the worker finished and joined.
C10_TeardownTerminates ==
    (refcount = 0 /\ NumFaulty = 0) ~> (releaseReturned /\ WorkerTerminated)

\* lifecycle of the lineage: 0 Active, 1 Closing (the last owner is in
\* inner::Dropper::drop, sender not yet dropped), 2 Draining (sender
\* dropped, worker not yet joined), 3 Terminated (worker joined)
Phase ==
    IF releaseReturned THEN 3
    ELSE IF drop_sender = "None" THEN 2
    ELSE IF teardownBy # Nobody THEN 1
    ELSE 0

\* progress of the worker thread: 0 in its receive loop, 1 leaving it
\* (unwinding or tearing the inner state down), 2 finished
WorkerRank ==
    IF worker \in {"recv", "destroying"} THEN 0
    ELSE IF WorkerTerminated THEN 2
    ELSE 1

\* C11 (lifecycle is forward-only): no step lowers the phase of the lineage;
\* a dropped sender, a taken join handle and a dropped receiver are never
\* restored; a worker that left its receive loop never re-enters it, a
\* finished worker never moves again and no second worker is started.
C11_ForwardOnly ==
    [][/\ Phase' >= Phase
       /\ drop_sender = "None" => drop_sender' = "None"
       /\ thread_handle = "None" => thread_handle' = "None"
       /\ ~receiverAlive => ~receiverAlive'
       /\ WorkerRank' >= WorkerRank
       /\ WorkerTerminated => UNCHANGED <<workerVars, workersStarted>>
       /\ releaseReturned => releaseReturned']_vars

C11_Witness ==
    /\ Phase = 3
    /\ worker = "done"
    /\ thread_handle = "None"
    /\ Len(destroyLog) >= 2

\* C12 (worker exit condition): when no destruction faulted in the worker, a
\* finished worker means the sender is dropped, no owner is alive, the queue
\* is empty and every value passed to dropout was destroyed by the worker.
C12_WorkerExit ==
    (WorkerTerminated /\ ~\E v \in Ids : FaultedInWorker(v)) =>
        /\ drop_sender = "None"
        /\ refcount = 0
        /\ \A p \in Producers : handles[p] = 0
        /\ queue = <<>>
        /\ cur = 0
        /\ \A v \in Ids : vals[v].place = "destroyed" /\ vals[v].by = WorkerThread

C12_Witness ==
    /\ worker = "done"
    /\ ~releaseReturned
    /\ Len(vals) >= 2
    /\ \A v \in Ids : vals[v].kind = "plain"

\* the step closes the sender inside the teardown of thread teardownBy
CloseStep ==
    \/ /\ teardownBy \in Producers
       /\ pc[teardownBy] = "close"
       /\ pc'[teardownBy] = "join"
    \/ /\ teardownBy = WorkerThread
       /\ worker = "close"
       /\ worker' = "join"

\* the step takes the join handle inside the teardown of thread teardownBy
JoinStep ==
    \/ /\ teardownBy \in Producers
       /\ pc[teardownBy] = "join"
       /\ pc'[teardownBy] = "idle"
    \/ /\ teardownBy = WorkerThread
       /\ worker = "join"

\* C13 (teardown steps run once and in order): one thread at most ever runs
\* the teardown; the sender changes only once, from present to dropped, in
\* the close step of that thread and while the join handle is still there;
\* the join handle changes only once, from present to taken, in the join
\* step of the same thread and after the sender was dropped.
C13_TeardownOnceInOrder ==
    /\ [](\A p \in Producers : \A q \in Producers :
            (pc[p] \in {"close", "join"} /\ pc[q] \in {"close", "join"})
                => p = q /\ worker \notin {"close", "join", "selfjoin"})
    /\ [][/\ teardownBy' # teardownBy => teardownBy = Nobody
          /\ drop_sender' # drop_sender =>
                /\ drop_sender = "Some"
                /\ thread_handle = "Some" /\ thread_handle' = "Some"
                /\ CloseStep
          /\ thread_handle' # thread_handle =>
                /\ thread_handle = "Some"
                /\ drop_sender = "None"
                /\ JoinStep]_vars

C13_Witness ==
    /\ thread_handle = "None"
    /\ teardownBy = 2
    /\ releaseReturned
    /\ vals # <<>>

\* where value v is
InQueue(v) == \E i \in 1..Len(queue) : queue[i] = v
AtWorker(v) == cur = v
AtCaller(v) == \E p \in Producers : held[p] = v
InLog(v) == \E i \in 1..Len(destroyLog) : destroyLog[i] = v

\* number of entries in all the places a value can be in
Occupied ==
    Len(queue) + (IF cur # 0 THEN 1 ELSE 0)
    + Cardinality({p \in Producers : held[p] # 0}) + Len(destroyLog)

\* C14 (single ownership of queued values): every value passed to dropout is
\* in some place (the queue, the worker's hand, a caller's hand for the
\* fallback, the log of destructions) and the places hold exactly as many
\* entries as there are values, so each value is in one place once; a value
\* in a caller's hand is one whose send failed; a value that was enqueued
\* never comes back to a caller, and a destroyed value stays destroyed: the
\* log of destructions only grows.
C14_SingleOwnership ==
    /\ [](/\ Occupied = Len(vals)
          /\ \A v \in Ids :
               /\ InQueue(v) \/ AtWorker(v) \/ AtCaller(v) \/ InLog(v)
               /\ vals[v].n = (IF InLog(v) THEN 1 ELSE 0)
               /\ AtCaller(v) => vals[v].gone /\ held[vals[v].prod] = v)
    /\ [][/\ \A p \in Producers :
               (held'[p] # 0 /\ held'[p] <= Len(vals)) =>
                   ~InQueue(held'[p]) /\ ~AtWorker(held'[p])
          /\ Len(destroyLog') >= Len(destroyLog)
          /\ SubSeq(destroyLog', 1, Len(destroyLog)) = destroyLog]_vars

C14_Witness ==
    /\ \E v \in Ids : InQueue(v)
    /\ \E v \in Ids : AtWorker(v)
    /\ \E v \in Ids : InLog(v)

\* C15 (where destruction runs): a step that shortens the queue is a step of
\* the worker thread only; a destroyed value was destroyed by the worker
\* thread exactly when its send succeeded, and otherwise by its own caller;
\* the receiver exists as long as the worker is in its receive loop, and a
\* dropout made then is enqueued.
C15_WhereDestructionRuns ==
    /\ [](/\ \A v \in Ids : vals[v].place = "destroyed" =>
                /\ (vals[v].by = WorkerThread) <=> ~vals[v].gone
                /\ vals[v].by # WorkerThread => vals[v].by = vals[v].prod
          /\ WorkerRank = 0 => receiverAlive)
    /\ [][/\ Len(queue') < Len(queue) =>
                /\ worker \in {"recv", "discard"}
                /\ UNCHANGED <<pc, held, handles>>
          /\ (Len(vals') > Len(vals) /\ WorkerRank = 0) =>
                /\ vals'[Len(vals')].place = "queue"
                /\ ~vals'[Len(vals')].gone]_vars

C15_Witness ==
    /\ worker = "panicked"
    /\ \E v \in Ids : vals[v].kind = "plain" /\ vals[v].by = WorkerThread
    /\ \E v \in Ids : vals[v].gone /\ vals[v].by = vals[v].prod

\* the worker thread ended by the panic of a value's destructor
WorkerDeadByFault == worker = "panicked" /\ \E v \in Ids : FaultedInWorker(v)

\* C16 (teardown after a worker fault): when the worker has ended by the
\* panic of a destructor, the teardown is never run by the worker thread,
\* the close and the join of the releasing thread are not blocked, the join
\* step returns normally to the caller with the handle taken, and a
\* returned release has dropped the sender.
C16_TeardownAfterFault ==
    /\ [](WorkerDeadByFault =>
            /\ teardownBy # WorkerThread
            /\ ~aborted
            /\ \A p \in Producers :
                  /\ pc[p] = "close" => ENABLED TeardownClose(p)
                  /\ pc[p] = "join" => ENABLED TeardownJoin(p)
            /\ releaseReturned =>
                  drop_sender = "None" /\ thread_handle = "None")
    /\ [][\A p \in Producers :
            (WorkerDeadByFault /\ pc[p] = "join" /\ pc'[p] # "join") =>
                /\ pc'[p] = "idle"
                /\ thread_handle' = "None"
                /\ releaseReturned'
                /\ UNCHANGED <<dropoutFault, unwrapPanic, aborted>>]_vars

C16_Witness ==
    /\ WorkerDeadByFault
    /\ releaseReturned
    /\ drop_sender = "None"
    /\ thread_handle = "None"
====
